---- MODULE Spec2Model ----
(***************************************************************************)
(* Model of python-deps/benchmark_parsers.py: the two measurement          *)
(* functions benchmark_file_parsing and benchmark_embedding, and the       *)
(* driver main() that sequences them and writes benchmark_results.json.    *)
(*                                                                         *)
(* The chunkhound parsers, the filesystem, hashlib and the                 *)
(* clock are the environment.  What they hand back is an input of the      *)
(* action that calls them:                                                 *)
(*   - an import, a file read or parser.parse either succeeds or raises    *)
(*     an exception of a class derived from Exception;                     *)
(*   - time.time() is read as a pair <<t0, t1>> with t1 >= t0 (the clock   *)
(*     is not set back during a measurement);                              *)
(*   - hashlib.md5 is tabulated for the texts of the model.                *)
(* Numbers that Python computes with true division are kept as reduced     *)
(* fractions <<numerator, denominator>>.                                   *)
(* The report's timestamp and python_version fields are left out.          *)
(***************************************************************************)
EXTENDS Integers, Sequences, FiniteSets, TLC

VARIABLES
    pc,            \* position of main(): start, loop, embed, save, done, crashed
    idx,           \* index into test_files of the next loop iteration
    results,       \* main's results dict: parsing_results, embedding_results
    all_texts,     \* main's all_texts list
    report_file,   \* the contents written to benchmark_results.json, in order
    stdout,        \* the lines printed, in order
    dir_exists,    \* test_files_dir.exists()
    file_exists,   \* file_path.exists() for each entry of test_files
    bench_calls,   \* indices of test_files handed to benchmark_file_parsing
    parser_calls,  \* per entry of test_files: number of parser.parse calls
    embed_calls,   \* the text lists handed to benchmark_embedding by main
    arg,           \* the arguments of the last direct call of a function
    ret,           \* what that call handed back: a record, or an exception
    embeddings     \* the embeddings list of the last benchmark_embedding

vars == <<pc, idx, results, all_texts, report_file, stdout, dir_exists,
          file_exists, bench_calls, parser_calls, embed_calls, arg, ret,
          embeddings>>

----------------------------------------------------------------------------
(* Bounds *)

MaxChunks == 2        \* most chunks parser.parse returns in a direct call
MaxTexts == 2         \* most texts in a direct call of benchmark_embedding
MaxStart == 1         \* latest first clock reading of a measurement
MaxDelay == 1         \* longest time between the two clock readings
MaxFixtureChunks == 1 \* most chunks parser.parse returns for a fixture file

----------------------------------------------------------------------------
(* Arithmetic and sequences *)

Abs(n) == IF n < 0 THEN -n ELSE n

RECURSIVE GCD(_, _)
GCD(a, b) == IF b = 0 THEN a ELSE GCD(b, a % b)

\* the int n as a number
Num(n) == <<n, 1>>

\* Python's true division a / b of two ints, b > 0, as a reduced fraction
TrueDiv(a, b) ==
    LET g == GCD(Abs(a), b)
    IN  <<a \div g, b \div g>>

\* x <= y and x < y on fractions with positive denominators
FracLE(x, y) == x[1] * y[2] <= y[1] * x[2]
FracLT(x, y) == x[1] * y[2] < y[1] * x[2]

RECURSIVE SumSeq(_)
SumSeq(s) == IF s = <<>> THEN 0 ELSE Head(s) + SumSeq(Tail(s))

SeqsUpTo(S, n) == UNION {[1..k -> S] : k \in 0..n}

----------------------------------------------------------------------------
(* Exceptions and the outcome of a call *)

Exc(cls, msg) == [cls |-> cls, msg |-> msg]

Return(v) == [kind |-> "return", value |-> v]
Raise(e) == [kind |-> "raise", exc |-> e]

\* an import or a read that went through
Done == Return(<<>>)

\* the classes derived from Exception that the environment raises
ExceptionSubclasses ==
    {"ValueError", "ImportError", "OSError", "UnicodeDecodeError",
     "RuntimeError", "ZeroDivisionError"}

\* os.path.basename of a path given as its sequence of components
basename(path) == IF path = <<>> THEN "" ELSE path[Len(path)]

----------------------------------------------------------------------------
(* benchmark_file_parsing *)

KnownParsers == {"markdown", "yaml", "vue", "code"}

\* what the imports, open/read and parser.parse can do in one call
ImportErrors == {Exc("ImportError", "No module named 'chunkhound'")}
ReadErrors == {Exc("OSError", "[Errno 13] Permission denied")}
ParseErrors == {Exc("RuntimeError", "")}

ParserEnvs(chunkLists) ==
    {[import |-> Raise(e), read |-> Done, parse |-> Return(<<>>)] :
        e \in ImportErrors}
    \cup {[import |-> Done, read |-> Raise(e), parse |-> Return(<<>>)] :
        e \in ReadErrors}
    \cup {[import |-> Done, read |-> Done, parse |-> Raise(e)] :
        e \in ParseErrors}
    \cup {[import |-> Done, read |-> Done, parse |-> Return(c)] :
        c \in chunkLists}

\* the pairs of clock readings of one measurement: start, then end
ClockReadings ==
    {<<t0, t0 + d>> : t0 \in 0..MaxStart, d \in 0..MaxDelay}

\* lines 44-52: the success record (chunks: the chunks' contents, in order)
ParsingAvgFloorDiv(chunks) ==
    IF chunks # <<>>
    THEN Num(SumSeq([i \in 1..Len(chunks) |-> Len(chunks[i])])
             \div Len(chunks))
    ELSE Num(0)

ParsingAvg(chunks) ==
    IF chunks # <<>>
    THEN TrueDiv(SumSeq([i \in 1..Len(chunks) |-> Len(chunks[i])]),
                 Len(chunks))
    ELSE Num(0)

ParsingSuccess(file_path, parser_name, chunks, parse_time) ==
    [file |-> basename(file_path),
     parser |-> parser_name,
     parse_time_ms |-> parse_time * 1000,
     chunk_count |-> Len(chunks),
     total_chunk_size |-> SumSeq([i \in 1..Len(chunks) |-> Len(chunks[i])]),
     avg_chunk_size |-> ParsingAvg(chunks),
     success |-> TRUE]

\* lines 55-61: the failure record
ParsingFailure(file_path, parser_name, e, elapsed) ==
    [file |-> basename(file_path),
     parser |-> parser_name,
     parse_time_ms |-> elapsed * 1000,
     error |-> e.msg,
     success |-> FALSE]

\* lines 20-52: the body of the try
ParsingTry(file_path, parser_name, env, clock) ==
    IF parser_name \notin KnownParsers
    THEN Raise(Exc("ValueError", "Unknown parser: " \o parser_name))
    ELSE IF env.import.kind = "raise" THEN env.import
    ELSE IF env.read.kind = "raise" THEN env.read
    ELSE IF env.parse.kind = "raise" THEN env.parse
    ELSE Return(ParsingSuccess(file_path, parser_name, env.parse.value,
                               clock[2] - clock[1]))

\* line 54: except Exception
ParsingCatchesOnlyValueError(e) == e.cls = "ValueError"

ParsingCatches(e) == e.cls \in ExceptionSubclasses

\* lines 16-61
benchmark_file_parsing(file_path, parser_name, env, clock) ==
    LET body == ParsingTry(file_path, parser_name, env, clock)
    IN  IF body.kind = "raise" /\ ParsingCatches(body.exc)
        THEN Return(ParsingFailure(file_path, parser_name, body.exc,
                                   clock[2] - clock[1]))
        ELSE body

----------------------------------------------------------------------------
(* benchmark_embedding *)

\* hashlib.md5(text.encode()).hexdigest(), tabulated, one character per place
Md5Hex(text) ==
    CASE text = "hello" ->
           <<"5","d","4","1","4","0","2","a","b","c","4","b","2","a","7","6",
             "b","9","7","1","9","d","9","1","1","0","1","7","c","5","9","2">>
      [] text = "" ->
           <<"d","4","1","d","8","c","d","9","8","f","0","0","b","2","0","4",
             "e","9","8","0","0","9","9","8","e","c","f","8","4","2","7","e">>
      [] text = "g" ->
           <<"b","2","f","5","f","f","4","7","4","3","6","6","7","1","b","6",
             "e","5","3","3","d","8","d","c","3","6","1","4","8","4","5","d">>

\* int(c, 16) of one hexadecimal character
HexVal(c) ==
    CASE c = "0" -> 0 [] c = "1" -> 1 [] c = "2" -> 2 [] c = "3" -> 3
      [] c = "4" -> 4 [] c = "5" -> 5 [] c = "6" -> 6 [] c = "7" -> 7
      [] c = "8" -> 8 [] c = "9" -> 9 [] c = "a" -> 10 [] c = "b" -> 11
      [] c = "c" -> 12 [] c = "d" -> 13 [] c = "e" -> 14 [] c = "f" -> 15

\* int(s, 16) of a sequence of hexadecimal characters
RECURSIVE HexInt(_)
HexInt(s) ==
    IF s = <<>> THEN 0
    ELSE 16 * HexInt(SubSeq(s, 1, Len(s) - 1)) + HexVal(s[Len(s)])

\* s[i:j] of Python, i and j counted from 0
Slice(s, i, j) ==
    LET lo == IF i > Len(s) THEN Len(s) ELSE i
        hi == IF j > Len(s) THEN Len(s) ELSE j
    IN  SubSeq(s, lo + 1, hi)

\* range(start, stop, step) as a sequence, step > 0
Range(start, stop, step) ==
    LET n == IF stop > start THEN (stop - start + step - 1) \div step ELSE 0
    IN  [k \in 1..n |-> start + (k - 1) * step]

\* line 75: one text's embedding
EmbeddingFirst16Hex(text) ==
    LET hex == Md5Hex(text)
        at == Range(0, 16, 2)
    IN  [k \in 1..Len(at) |->
            TrueDiv(HexInt(Slice(hex, at[k], at[k] + 2)), 255)]

Embedding(text) ==
    LET hex == Md5Hex(text)
        at == Range(0, 32, 2)
    IN  [k \in 1..Len(at) |->
            TrueDiv(HexInt(Slice(hex, at[k], at[k] + 2)), 255)]

\* lines 70-76: the embeddings list
FakeEmbeddings(texts) == [i \in 1..Len(texts) |-> Embedding(texts[i])]

\* lines 83-89: the success record
EmbeddingSuccessAvgInSeconds(texts, provider_name, embed_time) ==
    [embedding_provider |-> provider_name,
     text_count |-> Len(texts),
     embed_time_ms |-> embed_time * 1000,
     avg_embed_time_per_text_ms |->
        IF texts # <<>> THEN TrueDiv(embed_time, Len(texts))
        ELSE Num(0),
     success |-> TRUE]

EmbeddingSuccess(texts, provider_name, embed_time) ==
    [embedding_provider |-> provider_name,
     text_count |-> Len(texts),
     embed_time_ms |-> embed_time * 1000,
     avg_embed_time_per_text_ms |->
        IF texts # <<>> THEN TrueDiv(embed_time * 1000, Len(texts))
        ELSE Num(0),
     success |-> TRUE]

\* lines 92-98: the failure record
EmbeddingFailure(texts, provider_name, e, elapsed) ==
    [embedding_provider |-> provider_name,
     text_count |-> Len(texts),
     embed_time_ms |-> elapsed * 1000,
     error |-> e.msg,
     success |-> FALSE]

\* lines 67-89: the body of the try
EmbeddingTryAnyProvider(texts, provider_name, clock) ==
    Return(EmbeddingSuccess(texts, provider_name, clock[2] - clock[1]))

EmbeddingTry(texts, provider_name, clock) ==
    IF provider_name = "fake"
    THEN Return(EmbeddingSuccess(texts, provider_name, clock[2] - clock[1]))
    ELSE Raise(Exc("ValueError",
                   "Unknown embedding provider: " \o provider_name))

\* line 91: except Exception
EmbeddingCatches(e) == e.cls \in ExceptionSubclasses

\* lines 63-98
benchmark_embedding(texts, provider_name, clock) ==
    LET body == EmbeddingTry(texts, provider_name, clock)
    IN  IF body.kind = "raise" /\ EmbeddingCatches(body.exc)
        THEN Return(EmbeddingFailure(texts, provider_name, body.exc,
                                     clock[2] - clock[1]))
        ELSE body

----------------------------------------------------------------------------
(* main *)

\* lines 117-122
test_files ==
    <<<<"sample.md", "markdown">>, <<"sample.yaml", "yaml">>,
      <<"sample.vue", "vue">>, <<"sample.cs", "code">>>>

\* line 127: test_files_dir / filename
FixturePath(filename) == <<"ChunkHound.Tests", "Benchmarks", "TestFiles", filename>>

\* what the parsers make of the fixture files
FixtureTexts == {"hello"}
FixtureChunkLists == SeqsUpTo(FixtureTexts, MaxFixtureChunks)
FixtureEnvs == ParserEnvs(FixtureChunkLists)

\* in main every measurement is taken to last MaxDelay: the times in the
\* records are not what the properties of main depend on
FixtureClockReadings == {<<MaxStart, MaxStart + MaxDelay>>}

NoCalls == [i \in 1..Len(test_files) |-> 0]

\* lines 109-114, without timestamp and python_version
EmptyResults == [parsing_results |-> <<>>, embedding_results |-> <<>>]

\* lines 174-178 and 180-184: the summary lines
SummaryLine(result) ==
    IF result.success
    THEN <<"ok", result>>
    ELSE <<"FAILED", result.error>>

\* line 131: results["parsing_results"].append(result)
AppendResultIfSuccess(parsing_results, result) ==
    IF result.success THEN Append(parsing_results, result)
    ELSE parsing_results

AppendResult(parsing_results, result) == Append(parsing_results, result)

\* line 160: if all_texts
ShouldEmbedAlways(texts) == TRUE

ShouldEmbed(texts) == texts # <<>>

\* lines 166-168: json.dump(results, f) into a freshly opened output file
WriteReportIfAllSucceeded(file, res) ==
    IF \A i \in 1..Len(res.parsing_results) : res.parsing_results[i].success
    THEN Append(file, res)
    ELSE file

WriteReport(file, res) == Append(file, res)

\* lines 103-114: the fixture directory check and the empty results
MainStartNoCheck ==
    /\ pc = "start"
    /\ pc' = "loop"
    /\ UNCHANGED <<idx, results, all_texts, report_file, stdout, dir_exists,
                   file_exists, bench_calls, parser_calls, embed_calls>>
    /\ UNCHANGED <<arg, ret, embeddings>>

MainStart ==
    /\ pc = "start"
    /\ IF ~dir_exists
       THEN /\ stdout' = Append(stdout, <<"Test files directory not found">>)
            /\ pc' = "done"
       ELSE /\ stdout' = stdout
            /\ pc' = "loop"
    /\ UNCHANGED <<idx, results, all_texts, report_file, dir_exists,
                   file_exists, bench_calls, parser_calls, embed_calls>>
    /\ UNCHANGED <<arg, ret, embeddings>>

\* lines 135-155: collecting the texts of a file whose measurement succeeded
\* (env: what the second import, read and parse do)
CollectedTexts(env) ==
    IF env.import.kind = "return" /\ env.read.kind = "return"
       /\ env.parse.kind = "return"
    THEN env.parse.value
    ELSE <<>>

CollectFailed(env) ==
    \/ env.import.kind = "raise"
    \/ env.read.kind = "raise"
    \/ env.parse.kind = "raise"

\* parser.parse is reached when the import and the read went through
ParseReached(env) == env.import.kind = "return" /\ env.read.kind = "return"

\* lines 126-157: one iteration of the for loop
LoopIteration ==
    /\ pc = "loop"
    /\ idx <= Len(test_files)
    /\ LET filename == test_files[idx][1]
           parser_name == test_files[idx][2]
           file_path == FixturePath(filename)
       IN  IF file_exists[idx]
           THEN \E env \in FixtureEnvs, clock \in FixtureClockReadings,
                   env2 \in FixtureEnvs :
                LET call == benchmark_file_parsing(file_path, parser_name,
                                                   env, clock)
                    measured == IF ParseReached(env) THEN 1 ELSE 0
                IN  /\ bench_calls' = Append(bench_calls, idx)
                    /\ IF call.kind = "raise"
                       THEN /\ pc' = "crashed"
                            /\ parser_calls' =
                                 [parser_calls EXCEPT ![idx] = measured]
                            /\ stdout' =
                                 Append(stdout, <<"Benchmarking", filename>>)
                            /\ UNCHANGED <<idx, results, all_texts>>
                       ELSE LET result == call.value
                                collect == result.success
                            IN  /\ results' =
                                     [results EXCEPT !.parsing_results =
                                        AppendResult(@, result)]
                                /\ all_texts' =
                                     IF collect
                                     THEN all_texts \o CollectedTexts(env2)
                                     ELSE all_texts
                                /\ parser_calls' =
                                     [parser_calls EXCEPT ![idx] =
                                        measured +
                                        (IF collect /\ ParseReached(env2)
                                         THEN 1 ELSE 0)]
                                /\ stdout' =
                                     stdout
                                     \o <<<<"Benchmarking", filename>>>>
                                     \o (IF collect /\ CollectFailed(env2)
                                         THEN <<<<"Error collecting texts for",
                                                  filename>>>>
                                         ELSE <<>>)
                                /\ idx' = idx + 1
                                /\ pc' = IF idx = Len(test_files)
                                         THEN "embed" ELSE "loop"
           ELSE /\ stdout' = Append(stdout, <<"Test file not found", filename>>)
                /\ idx' = idx + 1
                /\ pc' = IF idx = Len(test_files) THEN "embed" ELSE "loop"
                /\ UNCHANGED <<results, all_texts, bench_calls, parser_calls>>
    /\ UNCHANGED <<report_file, dir_exists, file_exists, embed_calls>>
    /\ UNCHANGED <<arg, ret, embeddings>>

\* lines 159-163: the embedding benchmark
EmbedStep ==
    /\ pc = "embed"
    /\ IF ShouldEmbed(all_texts)
       THEN \E clock \in FixtureClockReadings :
                LET call == benchmark_embedding(all_texts, "fake", clock)
                IN  /\ embed_calls' = Append(embed_calls, all_texts)
                    /\ embeddings' = FakeEmbeddings(all_texts)
                    /\ stdout' = Append(stdout, <<"Benchmarking embedding">>)
                    /\ IF call.kind = "raise"
                       THEN pc' = "crashed" /\ results' = results
                       ELSE /\ pc' = "save"
                            /\ results' =
                                 [results EXCEPT !.embedding_results =
                                    Append(@, call.value)]
       ELSE /\ pc' = "save"
            /\ UNCHANGED <<results, embed_calls, embeddings, stdout>>
    /\ UNCHANGED <<idx, all_texts, report_file, dir_exists, file_exists,
                   bench_calls, parser_calls>>
    /\ UNCHANGED <<arg, ret>>

\* lines 165-184: writing the report and printing the summary
SaveAndSummary ==
    /\ pc = "save"
    /\ report_file' = WriteReport(report_file, results)
    /\ stdout' =
         stdout \o <<<<"Benchmark results saved">>>>
         \o [i \in 1..Len(results.parsing_results) |->
                SummaryLine(results.parsing_results[i])]
         \o [i \in 1..Len(results.embedding_results) |->
                SummaryLine(results.embedding_results[i])]
    /\ pc' = "done"
    /\ UNCHANGED <<idx, results, all_texts, dir_exists, file_exists,
                   bench_calls, parser_calls, embed_calls>>
    /\ UNCHANGED <<arg, ret, embeddings>>

NoCall == [fn |-> "none"]

Init ==
    /\ pc = "start"
    /\ idx = 1
    /\ results = EmptyResults
    /\ all_texts = <<>>
    /\ report_file = <<>>
    /\ stdout = <<>>
    /\ dir_exists \in BOOLEAN
    /\ file_exists \in [1..Len(test_files) -> BOOLEAN]
    /\ (~dir_exists => \A i \in 1..Len(test_files) : ~file_exists[i])
    /\ bench_calls = <<>>
    /\ parser_calls = NoCalls
    /\ embed_calls = <<>>
    /\ arg = NoCall
    /\ ret = Return(<<>>)
    /\ embeddings = <<>>

Next ==
    \/ MainStart
    \/ LoopIteration
    \/ EmbedStep
    \/ SaveAndSummary

Spec == Init /\ [][Next]_vars

----------------------------------------------------------------------------
(* The two functions called directly, with any arguments *)

Texts == {"", "hello", "g"}
ParserNames == KnownParsers \cup {"xml"}
ProviderNames == {"fake", "openai", ""}
FilePaths == {FixturePath("sample.md"), <<"missing.txt">>}

\* the arguments and the environment of one call of benchmark_file_parsing
FileParsingCalls ==
    {[fn |-> "benchmark_file_parsing", file_path |-> file_path,
      parser_name |-> parser_name, env |-> env, clock |-> clock] :
        file_path \in FilePaths, parser_name \in ParserNames,
        env \in ParserEnvs(SeqsUpTo(Texts, MaxChunks)),
        clock \in ClockReadings}

\* the arguments and the clock of one call of benchmark_embedding
EmbeddingCalls ==
    {[fn |-> "benchmark_embedding", texts |-> texts,
      provider_name |-> provider_name, clock |-> clock] :
        texts \in SeqsUpTo(Texts, MaxTexts),
        provider_name \in ProviderNames, clock \in ClockReadings}

CallFileParsing ==
    /\ pc = "direct"
    /\ arg.fn = "benchmark_file_parsing"
    /\ ret' = benchmark_file_parsing(arg.file_path, arg.parser_name, arg.env,
                                     arg.clock)
    /\ pc' = "returned"
    /\ UNCHANGED <<arg, embeddings>>
    /\ UNCHANGED <<idx, results, all_texts, report_file, stdout, dir_exists,
                   file_exists, bench_calls, parser_calls, embed_calls>>

CallEmbedding ==
    /\ pc = "direct"
    /\ arg.fn = "benchmark_embedding"
    /\ ret' = benchmark_embedding(arg.texts, arg.provider_name, arg.clock)
    /\ embeddings' = IF arg.provider_name = "fake"
                     THEN FakeEmbeddings(arg.texts) ELSE <<>>
    /\ pc' = "returned"
    /\ UNCHANGED arg
    /\ UNCHANGED <<idx, results, all_texts, report_file, stdout, dir_exists,
                   file_exists, bench_calls, parser_calls, embed_calls>>

InitCalls ==
    /\ pc = "direct"
    /\ idx = 1
    /\ results = EmptyResults
    /\ all_texts = <<>>
    /\ report_file = <<>>
    /\ stdout = <<>>
    /\ dir_exists = FALSE
    /\ file_exists = [i \in 1..Len(test_files) |-> FALSE]
    /\ bench_calls = <<>>
    /\ parser_calls = NoCalls
    /\ embed_calls = <<>>
    /\ arg \in FileParsingCalls \cup EmbeddingCalls
    /\ ret = Return(<<>>)
    /\ embeddings = <<>>

NextCalls ==
    \/ CallFileParsing
    \/ CallEmbedding

SpecCalls == InitCalls /\ [][NextCalls]_vars

----------------------------------------------------------------------------
(* Properties of the two functions, under SpecCalls *)

ParsingReturned == pc = "returned" /\ arg.fn = "benchmark_file_parsing"
EmbeddingReturned == pc = "returned" /\ arg.fn = "benchmark_embedding"

\* the call of benchmark_file_parsing meets one of the three failures
ParsingFails ==
    \/ arg.parser_name \notin KnownParsers
    \/ arg.env.import.kind = "raise"
    \/ arg.env.read.kind = "raise"
    \/ arg.env.parse.kind = "raise"

\* C1: benchmark_file_parsing never raises to its caller; when the parser
\* kind is unknown, the file cannot be read or parser.parse raises, it
\* returns a record with success = false, an error text (non-empty for an
\* unknown kind) and an elapsed time >= 0 that is the time between the two
\* clock readings.
C1_FailureIsRecorded ==
    ParsingReturned =>
        /\ ret.kind = "return"
        /\ ParsingFails =>
             /\ ret.value.success = FALSE
             /\ "error" \in DOMAIN ret.value
             /\ ret.value.parse_time_ms >= 0
             /\ ret.value.parse_time_ms
                  = 1000 * (arg.clock[2] - arg.clock[1])
             /\ ret.value.file = basename(arg.file_path)
             /\ arg.parser_name \notin KnownParsers =>
                  ret.value.error # ""

\* C1 witness: parser.parse raised and a failure record came back
C1_Witness ==
    /\ ParsingReturned
    /\ arg.parser_name \in KnownParsers
    /\ arg.env.parse.kind = "raise"
    /\ ret.kind = "return"
    /\ ret.value.success = FALSE
    /\ ret.value.parse_time_ms > 0

\* C6: benchmark_embedding with a provider other than "fake" returns a
\* record with success = false and a non-empty error text that names the
\* provider problem, for every texts list, and never raises.
C6_UnknownProviderFails ==
    (EmbeddingReturned /\ arg.provider_name # "fake") =>
        /\ ret.kind = "return"
        /\ ret.value.success = FALSE
        /\ "error" \in DOMAIN ret.value
        /\ ret.value.error # ""
        /\ ret.value.embedding_provider = arg.provider_name
        /\ ret.value.text_count = Len(arg.texts)

\* C6 witness: the empty list with an unknown provider gave a failure record
C6_Witness ==
    /\ EmbeddingReturned
    /\ arg.provider_name = "openai"
    /\ arg.texts = <<>>
    /\ ret.kind = "return"
    /\ ret.value.success = FALSE

\* the chunks parser.parse returned in the call
ParsedChunks == arg.env.parse.value

\* C8: in every success record of benchmark_file_parsing chunk_count is the
\* number of chunks, total_chunk_size the sum of their content lengths,
\* avg_chunk_size is total_chunk_size / chunk_count when chunk_count > 0 and
\* 0 when chunk_count = 0; a parse that returns (also with no chunk) gives a
\* success record.
C8_ChunkStatistics ==
    ParsingReturned =>
        /\ ~ParsingFails => (ret.kind = "return" /\ ret.value.success)
        /\ (ret.kind = "return" /\ ret.value.success) =>
             /\ ~ParsingFails
             /\ ret.value.chunk_count = Len(ParsedChunks)
             /\ ret.value.total_chunk_size
                  = SumSeq([i \in 1..Len(ParsedChunks) |->
                              Len(ParsedChunks[i])])
             /\ ret.value.chunk_count > 0 =>
                  /\ ret.value.avg_chunk_size[2] > 0
                  /\ ret.value.avg_chunk_size[1] * ret.value.chunk_count
                       = ret.value.total_chunk_size
                           * ret.value.avg_chunk_size[2]
             /\ ret.value.chunk_count = 0 =>
                  ret.value.avg_chunk_size = Num(0)

\* C8 witness: a parser that returned no chunk gave a success record
C8_Witness ==
    /\ ParsingReturned
    /\ ~ParsingFails
    /\ ParsedChunks = <<>>
    /\ ret.kind = "return"
    /\ ret.value.success
    /\ ret.value.avg_chunk_size = Num(0)

\* C9: benchmark_embedding(texts, "fake") returns success = true with
\* text_count = len(texts), avg_embed_time_per_text_ms = embed_time_ms /
\* text_count when text_count > 0 and 0 when texts is empty.
C9_FakeProviderSucceeds ==
    (EmbeddingReturned /\ arg.provider_name = "fake") =>
        /\ ret.kind = "return"
        /\ ret.value.success
        /\ ret.value.text_count = Len(arg.texts)
        /\ ret.value.text_count > 0 =>
             /\ ret.value.avg_embed_time_per_text_ms[2] > 0
             /\ ret.value.avg_embed_time_per_text_ms[1]
                  * ret.value.text_count
                = ret.value.embed_time_ms
                    * ret.value.avg_embed_time_per_text_ms[2]
        /\ ret.value.text_count = 0 =>
             ret.value.avg_embed_time_per_text_ms = Num(0)

\* C9 witness: the empty list gave text_count 0, average 0, success
C9_Witness ==
    /\ EmbeddingReturned
    /\ arg.provider_name = "fake"
    /\ arg.texts = <<>>
    /\ ret.kind = "return"
    /\ ret.value.success
    /\ ret.value.text_count = 0
    /\ ret.value.avg_embed_time_per_text_ms = Num(0)

\* the k-th byte of the digest of text, from its two hexadecimal characters
DigestByte(text, k) ==
    16 * HexVal(Md5Hex(text)[2 * k - 1]) + HexVal(Md5Hex(text)[2 * k])

----------------------------------------------------------------------------
(* Properties of main, under Spec *)

\* the for loop has run through test_files
LoopOver == pc \in {"embed", "save", "done"} /\ dir_exists

\* the run has ended in a directory that exists
RunOver == pc = "done" /\ dir_exists

\* the entries of test_files from index i on whose file exists, in order
RECURSIVE ExistingFrom(_)
ExistingFrom(i) ==
    IF i > Len(test_files) THEN <<>>
    ELSE (IF file_exists[i] THEN <<i>> ELSE <<>>) \o ExistingFrom(i + 1)

AllDeclared == [i \in 1..Len(test_files) |-> i]

\* the record is the one of entry i of test_files
RecordOf(record, i) ==
    record.file = test_files[i][1] /\ record.parser = test_files[i][2]

C3_MissingDirectoryReturns ==
    ~dir_exists =>
        /\ pc \in {"start", "done"}
        /\ bench_calls = <<>>
        /\ embed_calls = <<>>
        /\ results = EmptyResults
        /\ report_file = <<>>
        /\ pc = "done" => stdout = <<<<"Test files directory not found">>>>

\* C3 witness: main has returned on a missing directory
C3_Witness ==
    /\ ~dir_exists
    /\ pc = "done"
    /\ stdout # <<>>
    /\ report_file = <<>>

\* C4 as claimed: when the fixture directory exists the embedding benchmark
\* is invoked exactly once, after the parse measurements, and
\* embedding_results holds exactly one record, also for no collected text.
C4_EmbeddingExactlyOnce ==
    (pc \in {"save", "done"} /\ dir_exists) =>
        /\ Len(embed_calls) = 1
        /\ Len(results.embedding_results) = 1

\* C4 amended: when the fixture directory exists the embedding benchmark is
\* invoked at most once, after all parse measurements, over all collected
\* texts, and exactly once when at least one text was collected;
\* embedding_results then holds one record whose text_count is the number of
\* collected texts; when no text was collected the benchmark is not invoked
\* and embedding_results stays empty.
C4_EmbeddingOnceIfTexts ==
    /\ pc # "crashed"
    /\ Len(embed_calls) <= 1
    /\ Len(results.embedding_results) = Len(embed_calls)
    /\ embed_calls # <<>> =>
         /\ pc \in {"save", "done"}
         /\ idx = Len(test_files) + 1
         /\ embed_calls[1] = all_texts
         /\ results.embedding_results[1].text_count = Len(all_texts)
         /\ results.embedding_results[1].embedding_provider = "fake"
    /\ (pc \in {"save", "done"} /\ dir_exists) =>
         (Len(embed_calls) = 1 <=> all_texts # <<>>)

\* C4 witness: a run in which a file was measured, no text was collected and
\* the embedding benchmark was not invoked
C4_Witness ==
    /\ RunOver
    /\ bench_calls # <<>>
    /\ all_texts = <<>>
    /\ embed_calls = <<>>
    /\ results.embedding_results = <<>>

\* C5: when the fixture directory exists the report is written exactly once,
\* after every parse and embedding measurement, whether all items succeeded
\* or some failed; what is written is the results collected.
C5_ReportWrittenOnce ==
    /\ pc # "crashed"
    /\ Len(report_file) <= 1
    /\ report_file # <<>> =>
         /\ pc = "done"
         /\ dir_exists
         /\ idx = Len(test_files) + 1
         /\ report_file[1] = results
         /\ Len(results.parsing_results) = Len(bench_calls)
         /\ Len(results.embedding_results) = Len(embed_calls)
    /\ RunOver => Len(report_file) = 1

\* C5 witness: a run with a failed measurement whose report was written
C5_Witness ==
    /\ RunOver
    /\ Len(report_file) = 1
    /\ \E i \in 1..Len(report_file[1].parsing_results) :
         ~report_file[1].parsing_results[i].success
    /\ \E i \in 1..Len(report_file[1].parsing_results) :
         report_file[1].parsing_results[i].success

\* the sum of chunk_count over the successful records of parsing_results
RECURSIVE SuccessfulChunks(_)
SuccessfulChunks(rs) ==
    IF rs = <<>> THEN 0
    ELSE (IF Head(rs).success THEN Head(rs).chunk_count ELSE 0)
         + SuccessfulChunks(Tail(rs))

\* C10: whenever an embedding record is produced its text_count is the sum
\* of chunk_count over the successful records of parsing_results, and the
\* parser of each declared pair is invoked at most once in a run.
C10_TextsAreTheMeasuredChunks ==
    /\ \A i \in 1..Len(results.embedding_results) :
         results.embedding_results[i].text_count
           = SuccessfulChunks(results.parsing_results)
    /\ \A i \in 1..Len(test_files) : parser_calls[i] <= 1

====
